---- MODULE Spec2Model ----
(***************************************************************************)
(* Model of the `iot sandbox` command (src/cmd/iot/sandbox.go): settings   *)
(* resolution from the environment, transport selection, and the           *)
(* foreground flow Connect -> Subscribe -> Publish -> wait for the signal  *)
(* context, running beside the client's background receive task and the    *)
(* OS signal.                                                              *)
(*                                                                         *)
(* Strings that the program parses are sequences of one-character strings, *)
(* so that strconv.Atoi and strconv.ParseBool are computed, not assumed.   *)
(***************************************************************************)
EXTENDS Integers, Sequences, FiniteSets, TLC

\* ---------------------------------------------------------------- bounds

\* Number of interrupt/termination signals the OS may deliver in one run.
MaxSignals == 2

\* ---------------------------------------------------------- the environment

\* A variable of the environment after godotenv.Load: absent, or present with
\* a (possibly empty) string value.
Unset == [set |-> FALSE, val |-> <<>>]
Str(s) == [set |-> TRUE, val |-> s]

\* mqttSettingNames
mqttSettingNames ==
    << "MQTT_HOST_NAME", "MQTT_TCP_PORT", "MQTT_USE_TLS", "MQTT_CLEAN_SESSION",
       "MQTT_KEEP_ALIVE_IN_SECONDS", "MQTT_CLIENT_ID", "MQTT_USERNAME",
       "MQTT_PASSWORD", "MQTT_CA_FILE", "MQTT_CERT_FILE", "MQTT_KEY_FILE",
       "MQTT_KEY_FILE_PASSWORD" >>

SettingNames == { mqttSettingNames[i] : i \in 1..Len(mqttSettingNames) }

\* defaults: a key that is not in the Go map reads as "".
defaults ==
    [ name \in SettingNames |->
        CASE name = "MQTT_TCP_PORT"              -> <<"8","8","8","3">>
          [] name = "MQTT_USE_TLS"               -> <<"t","r","u","e">>
          [] name = "MQTT_CLEAN_SESSION"         -> <<"t","r","u","e">>
          [] name = "MQTT_KEEP_ALIVE_IN_SECONDS" -> <<"3","0">>
          [] OTHER                               -> <<>> ]

\* ------------------------------------------------------------------ strconv

DigitValue ==
    [ c \in {"0","1","2","3","4","5","6","7","8","9"} |->
        CASE c = "0" -> 0 [] c = "1" -> 1 [] c = "2" -> 2 [] c = "3" -> 3
          [] c = "4" -> 4 [] c = "5" -> 5 [] c = "6" -> 6 [] c = "7" -> 7
          [] c = "8" -> 8 [] c = "9" -> 9 ]

IsDigits(s) == Len(s) > 0 /\ \A i \in 1..Len(s) : s[i] \in DOMAIN DigitValue

RECURSIVE DigitsValue(_)
DigitsValue(s) ==
    IF Len(s) = 0 THEN 0
    ELSE 10 * DigitsValue(SubSeq(s, 1, Len(s) - 1)) + DigitValue[s[Len(s)]]

\* strconv.Atoi: an optional sign followed by at least one decimal digit.
AtoiOk(s) ==
    /\ Len(s) > 0
    /\ IF s[1] \in {"+", "-"} THEN IsDigits(Tail(s)) ELSE IsDigits(s)

Atoi(s) ==
    IF s[1] = "-" THEN 0 - DigitsValue(Tail(s))
    ELSE IF s[1] = "+" THEN DigitsValue(Tail(s))
    ELSE DigitsValue(s)

\* strconv.ParseBool: exactly these spellings.
TrueStrings == { <<"1">>, <<"t">>, <<"T">>, <<"T","R","U","E">>,
                  <<"t","r","u","e">>, <<"T","r","u","e">> }
FalseStrings == { <<"0">>, <<"f">>, <<"F">>, <<"F","A","L","S","E">>,
                  <<"f","a","l","s","e">>, <<"F","a","l","s","e">> }

ParseBoolOk(s) == s \in TrueStrings \cup FalseStrings
ParseBool(s) == s \in TrueStrings

\* Faulty variant of parseIntValue: the parse error is dropped and the field
\* is left zero.
parseIntValueSilent(value) ==
    IF AtoiOk(value) THEN [panic |-> FALSE, v |-> Atoi(value)]
    ELSE [panic |-> FALSE, v |-> 0]

\* parseIntValue / parseBoolValue panic on a parse error.
parseIntValue(value) ==
    IF AtoiOk(value) THEN [panic |-> FALSE, v |-> Atoi(value)]
    ELSE [panic |-> TRUE, v |-> 0]

parseBoolValue(value) ==
    IF ParseBoolOk(value) THEN [panic |-> FALSE, v |-> ParseBool(value)]
    ELSE [panic |-> TRUE, v |-> FALSE]

\* The Go conversion uint16(int): the low 16 bits.
Uint16(n) == n % 65536

\* ------------------------------------------------------------------- state

VARIABLES
    env,        \* the process environment after godotenv.Load
    pc,         \* position of the foreground flow (sandboxCmd.Run)
    cs,         \* the resolved mqttConnectionSettings
    conn,       \* c.Conn: "none", "open" or "closed"
    net,        \* network I/O attempted so far: dials and packets written
    calls,      \* paho client methods the foreground flow has called
    session,    \* protocol session: Disconnected, Connecting, Connected, Terminated
    ctxDone,    \* the signal.NotifyContext context is cancelled
    signals,    \* signals delivered by the OS so far
    signalledIn,\* the session state in which the first signal was delivered
    released,   \* times the foreground flow passed <-ctx.Done()
    stdout,     \* kinds of lines printed by the event handlers
    connack,    \* the CONNACK that c.Connect returned without an error
    report      \* what the run reports when it fails

vars == << env, pc, cs, conn, net, calls, session, ctxDone, signals, released,
           stdout, connack, report, signalledIn >>

NoSettings == [resolved |-> FALSE]
NoReport == [kind |-> "none"]
NoConnack == [received |-> FALSE]

\* Positions at which the process no longer runs.
Exited == {"exit0", "fatal", "panic", "killed"}
\* Positions at which the foreground flow is blocked inside a call.
Blocked == {"connecting", "subscribing", "publishing", "waiting"}

\* ------------------------------------------------------ settings resolution

\* os.Getenv: an absent variable reads as the empty string.
Getenv(name) == IF env[name].set THEN env[name].val ELSE <<>>

\* Faulty variant of MergeValue: the default wins whenever there is one.
MergeValueDefaultWins(name, value) ==
    IF defaults[name] # <<>> THEN defaults[name] ELSE value

\* The body of the loop of loadConnectionSettings: an empty value takes the
\* default when there is one.
MergeValue(name, value) ==
    IF value = <<>> /\ defaults[name] # <<>> THEN defaults[name] ELSE value

envVars == [ name \in SettingNames |-> MergeValue(name, Getenv(name)) ]

\* Faulty variant of KeepAliveOf: the integer is kept without the conversion.
KeepAliveUnconverted(n) == n

\* cs.KeepAlive = uint16(parseIntValue(...))
KeepAliveOf(n) == Uint16(n)

\* The assignments of loadConnectionSettings, in order; the first parse
\* failure panics.
Resolve ==
    LET port  == parseIntValue(envVars["MQTT_TCP_PORT"])
        tls   == parseBoolValue(envVars["MQTT_USE_TLS"])
        clean == parseBoolValue(envVars["MQTT_CLEAN_SESSION"])
        keep  == parseIntValue(envVars["MQTT_KEEP_ALIVE_IN_SECONDS"])
    IN  IF port.panic THEN [panic |-> TRUE, field |-> "MQTT_TCP_PORT"]
        ELSE IF tls.panic THEN [panic |-> TRUE, field |-> "MQTT_USE_TLS"]
        ELSE IF clean.panic THEN [panic |-> TRUE, field |-> "MQTT_CLEAN_SESSION"]
        ELSE IF keep.panic THEN [panic |-> TRUE, field |-> "MQTT_KEEP_ALIVE_IN_SECONDS"]
        ELSE [ panic |-> FALSE,
               cs |-> [ resolved        |-> TRUE,
                        Hostname        |-> envVars["MQTT_HOST_NAME"],
                        TcpPort         |-> port.v,
                        UseTls          |-> tls.v,
                        CleanSession    |-> clean.v,
                        KeepAlive       |-> KeepAliveOf(keep.v),
                        ClientId        |-> envVars["MQTT_CLIENT_ID"],
                        Username        |-> envVars["MQTT_USERNAME"],
                        Password        |-> envVars["MQTT_PASSWORD"],
                        CaFile          |-> envVars["MQTT_CA_FILE"],
                        CertFile        |-> envVars["MQTT_CERT_FILE"],
                        KeyFile         |-> envVars["MQTT_KEY_FILE"],
                        KeyFilePassword |-> envVars["MQTT_KEY_FILE_PASSWORD"] ] ]

\* loadConnectionSettings(env), called first by Run. fileOk: godotenv.Load
\* could read the file.
loadConnectionSettings ==
    /\ pc = "start"
    /\ \E fileOk \in BOOLEAN :
         IF ~fileOk
         THEN /\ pc' = "fatal"
              /\ report' = [kind |-> "env-file"]
              /\ cs' = cs
         ELSE IF Resolve.panic
         THEN /\ pc' = "panic"
              /\ report' = [kind |-> "parse", field |-> Resolve.field]
              /\ cs' = cs
         ELSE /\ pc' = "loaded"
              /\ cs' = Resolve.cs
              /\ report' = report
    /\ UNCHANGED << env, conn, net, calls, session, ctxDone, signals, released, stdout, connack,
                    signalledIn >>

\* ------------------------------------------------------------- the signal

\* signal.NotifyContext and paho.NewClient: from here on a signal cancels ctx
\* instead of killing the process.
notifyContext ==
    /\ pc = "loaded"
    /\ pc' = "client"
    /\ UNCHANGED << env, cs, conn, net, calls, session, ctxDone, signals,
                    released, stdout, report, connack,
                    signalledIn >>

\* The OS delivers SIGINT or SIGTERM. Before NotifyContext the default
\* disposition ends the process; afterwards the context is cancelled, and a
\* further signal finds it cancelled already.
Signal ==
    /\ signals < MaxSignals
    /\ pc \notin Exited
    /\ signals' = signals + 1
    /\ signalledIn' = IF signals = 0 THEN session ELSE signalledIn
    /\ IF pc \in {"start", "loaded"}
       THEN pc' = "killed" /\ ctxDone' = ctxDone
       ELSE pc' = pc /\ ctxDone' = TRUE
    /\ UNCHANGED << env, cs, conn, net, calls, session, released, stdout, report, connack >>

\* --------------------------------------------------------------- transport

Dial(tls) == [op |-> "dial", tls |-> tls, host |-> cs.Hostname, port |-> cs.TcpPort]

\* getTlsConnection(cs). certOk: tls.LoadX509KeyPair succeeds; caOk:
\* os.ReadFile(cs.CaFile) succeeds; dialOk: tls.Dial succeeds.
getTlsConnection(certOk, caOk, dialOk) ==
    IF cs.CertFile # <<>> /\ cs.KeyFile # <<>> /\ cs.KeyFilePassword # <<>>
    THEN /\ pc' = "fatal"
         /\ report' = [kind |-> "key-password"]
         /\ UNCHANGED << conn, net >>
    ELSE IF cs.CertFile # <<>> /\ cs.KeyFile # <<>> /\ ~certOk
    THEN /\ pc' = "fatal"
         /\ report' = [kind |-> "certificate"]
         /\ UNCHANGED << conn, net >>
    ELSE IF cs.CaFile # <<>> /\ ~caOk
    THEN /\ pc' = "panic"
         /\ report' = [kind |-> "ca"]
         /\ UNCHANGED << conn, net >>
    ELSE /\ net' = Append(net, Dial(TRUE))
         /\ IF dialOk
            THEN pc' = "dialed" /\ conn' = "open" /\ report' = report
            ELSE pc' = "panic" /\ conn' = conn /\ report' = [kind |-> "dial"]

\* The else branch of the transport selection: net.Dial.
plainDial(dialOk) ==
    /\ net' = Append(net, Dial(FALSE))
    /\ IF dialOk
       THEN pc' = "dialed" /\ conn' = "open" /\ report' = report
       ELSE pc' = "panic" /\ conn' = conn /\ report' = [kind |-> "dial"]

\* if cs.UseTls { c.Conn = getTlsConnection(cs) } else { net.Dial }
openTransport ==
    /\ pc = "client"
    /\ \E certOk \in BOOLEAN, caOk \in BOOLEAN, dialOk \in BOOLEAN :
         IF cs.UseTls THEN getTlsConnection(certOk, caOk, dialOk)
         ELSE plainDial(dialOk)
    /\ UNCHANGED << env, cs, calls, session, ctxDone, signals, released, stdout, connack,
                    signalledIn >>

\* ----------------------------------------------------------------- connect

\* cp := &paho.Connect{...} with the optional credentials.
ConnectPacket ==
    [ op           |-> "CONNECT",
      KeepAlive    |-> cs.KeepAlive,
      ClientID     |-> cs.ClientId,
      CleanStart   |-> cs.CleanSession,
      UsernameFlag |-> cs.Username # <<>>,
      PasswordFlag |-> cs.Password # <<>> ]

\* c.Connect(ctx, cp) sends CONNECT and blocks for the response.
Connect ==
    /\ pc = "dialed"
    /\ pc' = "connecting"
    /\ calls' = Append(calls, "Connect")
    /\ net' = Append(net, ConnectPacket)
    /\ session' = "Connecting"
    /\ UNCHANGED << env, cs, conn, ctxDone, signals, released, stdout, report, connack,
                    signalledIn >>

\* Reason codes a CONNACK may carry: success, unspecified error, not authorized.
ReasonCodes == {0, 128, 135}
NilProperties == [nil |-> TRUE]
SomeProperties == [nil |-> FALSE, ReasonString |-> "not authorized"]
Connacks == [ReasonCode : ReasonCodes, Properties : {NilProperties, SomeProperties}]

\* What Run does with a CONNACK whose reason code is not zero:
\* log.Fatalf(..., ca.ReasonCode, ca.Properties.ReasonString).
rejectConnack(ca) ==
    IF ca.Properties.nil
    THEN pc' = "panic" /\ report' = [kind |-> "nil-dereference"]
    ELSE /\ pc' = "fatal"
         /\ report' = [kind |-> "reject", code |-> ca.ReasonCode,
                       reason |-> ca.Properties.ReasonString]

\* c.Connect returns (ca, err); Run checks err, then ca.ReasonCode.
ConnectReturn ==
    /\ pc = "connecting"
    /\ \E err \in BOOLEAN, ca \in Connacks :
         IF err
         THEN /\ pc' = "fatal"
              /\ report' = [kind |-> "connect-error"]
              /\ session' = "Terminated"
              /\ connack' = connack
         ELSE /\ connack' = [received |-> TRUE, ReasonCode |-> ca.ReasonCode,
                              Properties |-> ca.Properties]
              /\ IF ca.ReasonCode # 0
                 THEN rejectConnack(ca) /\ session' = "Terminated"
                 ELSE pc' = "connected" /\ report' = report /\ session' = "Connected"
    /\ UNCHANGED << env, cs, conn, net, calls, ctxDone, signals, released, stdout,
                    signalledIn >>

\* c.Connect was given ctx: a cancelled ctx makes it return an error.
ConnectCancelled ==
    /\ pc = "connecting"
    /\ ctxDone
    /\ pc' = "fatal"
    /\ report' = [kind |-> "connect-error"]
    /\ session' = "Terminated"
    /\ UNCHANGED << env, cs, conn, net, calls, ctxDone, signals, released, stdout, connack,
                    signalledIn >>

\* --------------------------------------------------------------- subscribe

SubscribePacket == [op |-> "SUBSCRIBE", Topic |-> "sample/+", QoS |-> 1]

\* c.Subscribe(ctx, ...) is called as soon as Connect succeeded, whatever the
\* handlers have printed meanwhile; the packet is written if c.Conn is open.
Subscribe ==
    /\ pc = "connected"
    /\ calls' = Append(calls, "Subscribe")
    /\ IF conn = "open"
       THEN /\ net' = Append(net, SubscribePacket)
            /\ pc' = "subscribing"
            /\ report' = report
       ELSE /\ net' = net
            /\ pc' = "fatal"
            /\ report' = [kind |-> "could-not-subscribe", cause |-> "closed"]
    /\ UNCHANGED << env, cs, conn, session, ctxDone, signals, released, stdout, connack,
                    signalledIn >>

\* c.Subscribe returns on the broker's answer: granted, or an error when the
\* subscription is answered with an error code; on an error Run calls
\* log.Fatalf.
subscribeResult(outcome) ==
    IF outcome = "granted"
    THEN pc' = "subscribed" /\ report' = report
    ELSE pc' = "fatal" /\ report' = [kind |-> "could-not-subscribe", cause |-> outcome]

SubscribeReturn ==
    /\ pc = "subscribing"
    /\ \E outcome \in {"granted", "rejected"} : subscribeResult(outcome)
    /\ UNCHANGED << env, cs, conn, net, calls, session, ctxDone, signals,
                    released, stdout, connack, signalledIn >>

\* c.Subscribe returns an error once the connection is gone.
SubscribeLost ==
    /\ pc = "subscribing"
    /\ conn = "closed"
    /\ subscribeResult("lost")
    /\ UNCHANGED << env, cs, conn, net, calls, session, ctxDone, signals,
                    released, stdout, connack, signalledIn >>

\* c.Subscribe was given ctx.
SubscribeCancelled ==
    /\ pc = "subscribing"
    /\ ctxDone
    /\ pc' = "fatal"
    /\ report' = [kind |-> "could-not-subscribe", cause |-> "cancelled"]
    /\ UNCHANGED << env, cs, conn, net, calls, session, ctxDone, signals,
                    released, stdout, connack,
                    signalledIn >>

\* ----------------------------------------------------------------- publish

PublishPacket ==
    [op |-> "PUBLISH", Topic |-> "sample/topic1", QoS |-> 1, Retain |-> FALSE]

\* c.Publish(context.Background(), ...): QoS 1, blocks for the acknowledgement.
Publish ==
    /\ pc = "subscribed"
    /\ calls' = Append(calls, "Publish")
    /\ IF conn = "open"
       THEN /\ net' = Append(net, PublishPacket)
            /\ pc' = "publishing"
            /\ report' = report
       ELSE /\ net' = net
            /\ pc' = "fatal"
            /\ report' = [kind |-> "could-not-publish", cause |-> "closed"]
    /\ UNCHANGED << env, cs, conn, session, ctxDone, signals, released, stdout, connack,
                    signalledIn >>

\* c.Publish returns when the acknowledgement arrives. It was given
\* context.Background(): cancelling ctx does not end it.
PublishReturn ==
    /\ pc = "publishing"
    /\ pc' = "waiting"
    /\ UNCHANGED << env, cs, conn, net, calls, session, ctxDone, signals,
                    released, stdout, connack, report, signalledIn >>

\* c.Publish returns an error once the connection is gone.
PublishLost ==
    /\ pc = "publishing"
    /\ conn = "closed"
    /\ pc' = "fatal"
    /\ report' = [kind |-> "could-not-publish", cause |-> "lost"]
    /\ UNCHANGED << env, cs, conn, net, calls, session, ctxDone, signals,
                    released, stdout, connack, signalledIn >>

\* ------------------------------------------------------- wait for shutdown

\* <-ctx.Done(); fmt.Println("signal caught - exiting"); return (defer stop()).
waitForSignal ==
    /\ pc = "waiting"
    /\ ctxDone
    /\ pc' = "exit0"
    /\ released' = released + 1
    /\ stdout' = stdout \cup {"signal caught - exiting"}
    /\ UNCHANGED << env, cs, conn, net, calls, session, ctxDone, signals, report, connack,
                    signalledIn >>

\* ------------------------------------------------ background receive task

Disconnects == [ReasonCode : {0, 139}, Properties : {NilProperties, SomeProperties}]

\* OnServerDisconnect: prints the reason string, or the reason code when the
\* packet carries no properties.
OnServerDisconnect ==
    /\ pc \notin Exited
    /\ session = "Connected"
    /\ \E d \in Disconnects :
         stdout' = stdout \cup
             { IF d.Properties.nil THEN "server requested disconnect; reason code"
               ELSE "server requested disconnect: reason string" }
    /\ session' = "Terminated"
    /\ UNCHANGED << env, pc, cs, conn, net, calls, ctxDone, signals, released, report, connack,
                    signalledIn >>

\* OnClientError: prints the error.
OnClientError ==
    /\ pc \notin Exited
    /\ session = "Connected"
    /\ stdout' = stdout \cup {"server requested disconnect: error"}
    /\ session' = "Terminated"
    /\ UNCHANGED << env, pc, cs, conn, net, calls, ctxDone, signals, released, report, connack,
                    signalledIn >>

\* After the session ended the network connection goes away (the peer or the
\* client closes it); no handler of Run closes c.Conn itself.
ConnClosed ==
    /\ pc \notin Exited
    /\ session = "Terminated"
    /\ conn = "open"
    /\ conn' = "closed"
    /\ UNCHANGED << env, pc, cs, net, calls, session, ctxDone, signals, released,
                    stdout, report, connack,
                    signalledIn >>

\* ------------------------------------------------------------ specification

\* Values tried for each variable of the environment.
EnvValues(name) ==
    CASE name = "MQTT_HOST_NAME" -> { Str(<<"h">>) }
      [] name = "MQTT_TCP_PORT" -> { Unset, Str(<<"1","8","8","3">>), Str(<<"1","e","3">>) }
      [] name = "MQTT_USE_TLS" ->
            { Unset, Str(<<>>), Str(<<"f","a","l","s","e">>), Str(<<"y","e","s">>) }
      [] name = "MQTT_CLEAN_SESSION" -> { Unset, Str(<<"0">>), Str(<<"n","o">>) }
      [] name = "MQTT_KEEP_ALIVE_IN_SECONDS" ->
            { Unset, Str(<<>>), Str(<<"0">>), Str(<<"6","5","5","3","5">>),
              Str(<<"6","5","5","3","6">>), Str(<<"6","5","5","6","6">>),
              Str(<<"-","1">>), Str(<<"3","s">>) }
      [] name = "MQTT_CERT_FILE" -> { Unset, Str(<<"c">>) }
      [] name = "MQTT_KEY_FILE" -> { Unset, Str(<<"k">>) }
      [] name = "MQTT_KEY_FILE_PASSWORD" -> { Unset, Str(<<"p">>) }
      [] OTHER -> { Unset }

Envs ==
    { [ name \in SettingNames |->
          CASE name = "MQTT_HOST_NAME"             -> host
            [] name = "MQTT_TCP_PORT"              -> port
            [] name = "MQTT_USE_TLS"               -> tls
            [] name = "MQTT_CLEAN_SESSION"         -> clean
            [] name = "MQTT_KEEP_ALIVE_IN_SECONDS" -> keep
            [] name = "MQTT_CERT_FILE"             -> cert
            [] name = "MQTT_KEY_FILE"              -> key
            [] name = "MQTT_KEY_FILE_PASSWORD"     -> pw
            [] OTHER                               -> Unset ] :
        host  \in EnvValues("MQTT_HOST_NAME"),
        port  \in EnvValues("MQTT_TCP_PORT"),
        tls   \in EnvValues("MQTT_USE_TLS"),
        clean \in EnvValues("MQTT_CLEAN_SESSION"),
        keep  \in EnvValues("MQTT_KEEP_ALIVE_IN_SECONDS"),
        cert  \in EnvValues("MQTT_CERT_FILE"),
        key   \in EnvValues("MQTT_KEY_FILE"),
        pw    \in EnvValues("MQTT_KEY_FILE_PASSWORD") }

Init ==
    /\ env \in Envs
    /\ pc = "start"
    /\ cs = NoSettings
    /\ conn = "none"
    /\ net = <<>>
    /\ calls = <<>>
    /\ session = "Disconnected"
    /\ ctxDone = FALSE
    /\ signals = 0
    /\ signalledIn = "none"
    /\ released = 0
    /\ stdout = {}
    /\ connack = NoConnack
    /\ report = NoReport

Next ==
    \/ loadConnectionSettings
    \/ notifyContext
    \/ Signal
    \/ openTransport
    \/ Connect
    \/ ConnectReturn
    \/ ConnectCancelled
    \/ Subscribe
    \/ SubscribeReturn
    \/ SubscribeLost
    \/ SubscribeCancelled
    \/ Publish
    \/ PublishReturn
    \/ PublishLost
    \/ waitForSignal
    \/ OnServerDisconnect
    \/ OnClientError
    \/ ConnClosed

Spec == Init /\ [][Next]_vars

\* The steps the program takes by itself are taken when they stay possible,
\* and a connection whose session ended is closed and seen to be closed. The
\* signal, the broker's responses and the events are not promised to come.
FairSpec ==
    /\ Spec
    /\ WF_vars(loadConnectionSettings)
    /\ WF_vars(notifyContext)
    /\ WF_vars(openTransport)
    /\ WF_vars(Connect)
    /\ WF_vars(ConnectCancelled)
    /\ WF_vars(Subscribe)
    /\ WF_vars(SubscribeCancelled)
    /\ WF_vars(SubscribeLost)
    /\ WF_vars(Publish)
    /\ WF_vars(PublishLost)
    /\ WF_vars(waitForSignal)
    /\ WF_vars(ConnClosed)

\* ------------------------------------------------------------------ claims

Count(seq, x) == Cardinality({ i \in 1..Len(seq) : seq[i] = x })

Packets(op) == { i \in 1..Len(net) : net[i].op = op }

\* C1: when the run returns after a signal that came while the session was
\* Connected, Disconnect has been called exactly once and the transport has
\* been closed before the exit.
C1_DisconnectOnShutdown ==
    (pc = "exit0" /\ signalledIn = "Connected") =>
        (Count(calls, "Disconnect") = 1 /\ conn = "closed")

\* The transport no longer carries the session: closed, or gone with the process.
TransportReleased == conn = "closed" \/ pc \in Exited

RequestCalls == Count(calls, "Subscribe") + Count(calls, "Publish")

\* C3: after a CONNACK with a nonzero reason code, with or without
\* properties, the session is Terminated, the transport is released, no
\* Subscribe or Publish is attempted and the run reports the rejection with
\* the response's reason code and reason text.
C3_RejectReported ==
    (connack.received /\ connack.ReasonCode # 0) =>
        /\ session = "Terminated"
        /\ TransportReleased
        /\ RequestCalls = 0
        /\ report.kind = "reject"
        /\ report.code = connack.ReasonCode
        /\ report.reason = (IF connack.Properties.nil THEN ""
                            ELSE connack.Properties.ReasonString)

\* C4: once the signal has cancelled the context, the foreground flow does
\* not stay blocked: whatever call it is in, it eventually leaves it.
C4_SignalUnblocks == ctxDone ~> (pc \notin Blocked)

EventLogged ==
    stdout \cap { "server requested disconnect; reason code",
                  "server requested disconnect: reason string",
                  "server requested disconnect: error" } # {}

\* C5: after a server disconnect or a client error has been handed to the
\* handlers, the run shuts down without a signal: the foreground flow does
\* not stay in its final wait.
C5_EventDrivesShutdown == (EventLogged /\ pc = "waiting") ~> (pc # "waiting")

KeyPasswordConflict ==
    /\ cs.resolved
    /\ cs.CertFile # <<>>
    /\ cs.KeyFile # <<>>
    /\ cs.KeyFilePassword # <<>>

\* C6: with a certificate, a key and a key password all set, with TLS or
\* without, no network I/O is attempted and the run ends in a configuration
\* error.
C6_KeyPasswordBeforeNetwork ==
    KeyPasswordConflict =>
        /\ net = <<>>
        /\ pc \in {"loaded", "client", "fatal", "killed"}
        /\ pc = "fatal" => report.kind = "key-password"

IntFields == {"MQTT_TCP_PORT", "MQTT_KEEP_ALIVE_IN_SECONDS"}
BoolFields == {"MQTT_USE_TLS", "MQTT_CLEAN_SESSION"}

WellFormed(name, s) == IF name \in IntFields THEN AtoiOk(s) ELSE ParseBoolOk(s)

\* Resolution was aborted: no settings, and nothing was opened or sent.
ResolutionAborted ==
    /\ cs = NoSettings
    /\ net = <<>>
    /\ calls = <<>>
    /\ conn = "none"
    /\ pc \in {"start", "panic", "fatal", "killed"}

\* C7 as stated: every supplied value of the four parsed fields that is not
\* well formed makes resolution fail; no settings are returned.
C7_AnyMalformedAborts ==
    (\E name \in IntFields \cup BoolFields :
        env[name].set /\ ~WellFormed(name, env[name].val))
    => ResolutionAborted

\* C7 amended: every supplied non-empty value of the four parsed fields that
\* is not well formed makes resolution fail: the run panics, no settings are
\* returned and nothing is opened or sent. (An empty value counts as omitted.)
C7_MalformedAborts ==
    (\E name \in IntFields \cup BoolFields :
        env[name].set /\ env[name].val # <<>> /\ ~WellFormed(name, env[name].val))
    => ResolutionAborted

C7_Witness ==
    /\ pc = "panic"
    /\ report.kind = "parse"
    /\ report.field = "MQTT_KEEP_ALIVE_IN_SECONDS"
    /\ env["MQTT_KEEP_ALIVE_IN_SECONDS"] = Str(<<"3","s">>)

\* The resolved field of each key that has a default.
Field(name) ==
    CASE name = "MQTT_TCP_PORT"              -> cs.TcpPort
      [] name = "MQTT_USE_TLS"               -> cs.UseTls
      [] name = "MQTT_CLEAN_SESSION"         -> cs.CleanSession
      [] name = "MQTT_KEEP_ALIVE_IN_SECONDS" -> cs.KeepAlive

DeclaredDefault(name) ==
    CASE name = "MQTT_TCP_PORT"              -> 8883
      [] name = "MQTT_USE_TLS"               -> TRUE
      [] name = "MQTT_CLEAN_SESSION"         -> TRUE
      [] name = "MQTT_KEEP_ALIVE_IN_SECONDS" -> 30

\* The value a supplied string stands for.
Supplied(name, s) == IF name \in IntFields THEN Atoi(s) ELSE ParseBool(s)

StringField(name) ==
    CASE name = "MQTT_HOST_NAME"         -> cs.Hostname
      [] name = "MQTT_CLIENT_ID"         -> cs.ClientId
      [] name = "MQTT_USERNAME"          -> cs.Username
      [] name = "MQTT_PASSWORD"          -> cs.Password
      [] name = "MQTT_CA_FILE"           -> cs.CaFile
      [] name = "MQTT_CERT_FILE"         -> cs.CertFile
      [] name = "MQTT_KEY_FILE"          -> cs.KeyFile
      [] name = "MQTT_KEY_FILE_PASSWORD" -> cs.KeyFilePassword

StringFieldsResolved ==
    \A name \in SettingNames \ (IntFields \cup BoolFields) :
        StringField(name) = (IF env[name].set THEN env[name].val ELSE <<>>)

\* C8 as stated: an omitted key with a default resolves to the default, any
\* supplied value resolves to that value, and a key without a default
\* resolves to the empty string when omitted.
C8_SuppliedOverrides ==
    cs.resolved =>
        /\ \A name \in IntFields \cup BoolFields :
             IF env[name].set
             THEN /\ WellFormed(name, env[name].val)
                  /\ Field(name) = Supplied(name, env[name].val)
             ELSE Field(name) = DeclaredDefault(name)
        /\ StringFieldsResolved

\* C8 amended: a key with a default that is omitted, or supplied empty,
\* resolves to the default; a supplied non-empty value resolves to the value
\* it parses to, the keep-alive reduced modulo 2^16; a key without a default
\* resolves to the supplied string, empty when omitted.
C8_DefaultsAndOverrides ==
    cs.resolved =>
        /\ \A name \in IntFields \cup BoolFields :
             IF env[name].set /\ env[name].val # <<>>
             THEN /\ WellFormed(name, env[name].val)
                  /\ Field(name) =
                        (IF name = "MQTT_KEEP_ALIVE_IN_SECONDS"
                         THEN Supplied(name, env[name].val) % 65536
                         ELSE Supplied(name, env[name].val))
             ELSE Field(name) = DeclaredDefault(name)
        /\ StringFieldsResolved

C8_Witness ==
    /\ cs.resolved
    /\ env["MQTT_TCP_PORT"] = Str(<<"1","8","8","3">>)
    /\ cs.TcpPort = 1883
    /\ ~env["MQTT_KEEP_ALIVE_IN_SECONDS"].set
    /\ cs.KeepAlive = 30
    /\ env["MQTT_USE_TLS"] = Str(<<"f","a","l","s","e">>)
    /\ ~cs.UseTls
    /\ env["MQTT_CERT_FILE"] = Str(<<"c">>)
    /\ ~env["MQTT_KEY_FILE"].set

\* C9: a subscribe answered with an error code is reported and does not end
\* the session: the run goes on, the transport stays open and Publish is
\* still to come.
C9_SubscribeRejectKeepsSession ==
    (report.kind = "could-not-subscribe" /\ report.cause = "rejected") =>
        /\ pc \notin Exited
        /\ conn = "open"

\* The number that KEEP_ALIVE_IN_SECONDS stands for in this environment.
KeepAliveNumber ==
    LET s == Getenv("MQTT_KEEP_ALIVE_IN_SECONDS")
    IN  IF s = <<>> THEN 30 ELSE Atoi(s)

\* C10: the keep-alive carried by CONNECT is the supplied integer reduced
\* modulo 2^16: a 16-bit value congruent to it, hence the number itself when
\* it lies in 0..65535, 0 for 65536, 30 for 65566 and 65535 for -1.
C10_KeepAliveWraps ==
    \A i \in Packets("CONNECT") :
        /\ net[i].KeepAlive \in 0..65535
        /\ \E k \in -1..1 : net[i].KeepAlive = KeepAliveNumber + k * 65536
        /\ KeepAliveNumber \in 0..65535 => net[i].KeepAlive = KeepAliveNumber
        /\ KeepAliveNumber = 65536 => net[i].KeepAlive = 0
        /\ KeepAliveNumber = 65566 => net[i].KeepAlive = 30
        /\ KeepAliveNumber = -1 => net[i].KeepAlive = 65535

C10_Witness ==
    /\ Packets("CONNECT") # {}
    /\ env["MQTT_KEEP_ALIVE_IN_SECONDS"] = Str(<<"6","5","5","6","6">>)
    /\ \A i \in Packets("CONNECT") : net[i].KeepAlive = 30

====
